---- MODULE Spec2Model ----
(***************************************************************************)
(* Timeline event ingestion and deduplication engine of Themis-Roussos:    *)
(* TimelineUltra (src/timeline_ultra.py) over the local JSON store         *)
(* TimelineMemory (src/memory/timeline_memory.py), driven as in src/app.py.*)
(***************************************************************************)
EXTENDS Integers, Sequences, FiniteSets, TLC

VARIABLES events, fingerprints, events_db, storage_file, remote_docs, now, last,
          other, event_count, chat, req

\* what the engine and its store do not touch: a second TimelineMemory of
\* another process opened on the same file, the event_count the
\* conversation manager keeps for the current conversation, the running
\* chat_with_tools() call and the running BaseAPI.request() call
outside == <<other, event_count, chat, req>>

vars == <<events, fingerprints, events_db, storage_file, remote_docs, now, last, outside>>

(***************************************************************************)
(* Bounds of the model.                                                    *)
(***************************************************************************)
NumDays == 2
TodPerDay == 2
MaxBatch == 2
MaxEvents == 2
MaxClock == 1
NumYears == 2
DaysPerYear == 2
MaxFrags == 2

\* title.lower().strip()[:100]
FpLen == 100

Days == 1..NumDays
Tods == 0..(TodPerDay - 1)

(***************************************************************************)
(* Values.  A date value is None, a datetime, or a str; a str is a         *)
(* date-only ISO text, a full ISO text, or a text that is no ISO date      *)
(* ("bad"; "None" is what str(None) gives).                                *)
(***************************************************************************)
NoneVal == [kind |-> "none", form |-> "", day |-> 0, tod |-> 0]
DateTime(d, t) == [kind |-> "datetime", form |-> "", day |-> d, tod |-> t]
StrDate(d) == [kind |-> "str", form |-> "date", day |-> d, tod |-> 0]
StrDateTime(d, t) == [kind |-> "str", form |-> "datetime", day |-> d, tod |-> t]
StrBad == [kind |-> "str", form |-> "bad", day |-> 0, tod |-> 0]
StrNone == [kind |-> "str", form |-> "None", day |-> 0, tod |-> 0]

\* datetime.fromisoformat(s): a date-only text parses to midnight of that day
FromIsoOk(s) == s.form \in {"date", "datetime"}
FromIso(s) == DateTime(s.day, IF s.form = "date" THEN 0 ELSE s.tod)

\* date.isoformat() if isinstance(date, datetime) else str(date)
IsoFormat(d) ==
    IF d.kind = "datetime" THEN StrDateTime(d.day, d.tod)
    ELSE IF d.kind = "none" THEN StrNone
    ELSE d

\* position of a datetime on the time line (the order of e.date comparisons)
Ord(d) == d.day * TodPerDay + d.tod

\* titles are sequences of characters
Lower(c) ==
    CASE c = "L" -> "l"
      [] c = "O" -> "o"
      [] c = "I" -> "i"
      [] c = "A" -> "a"
      [] c = "B" -> "b"
      [] c = "R" -> "r"
      [] c = "X" -> "x"
      [] c = "C" -> "c"
      [] OTHER -> c

IsSpace(c) == c = " "

StrLower(s) == [i \in 1..Len(s) |-> Lower(s[i])]

RECURSIVE LStrip(_)
LStrip(s) == IF s # <<>> /\ IsSpace(Head(s)) THEN LStrip(Tail(s)) ELSE s

RECURSIVE RStrip(_)
RStrip(s) ==
    IF s # <<>> /\ IsSpace(s[Len(s)]) THEN RStrip(SubSeq(s, 1, Len(s) - 1)) ELSE s

Strip(s) == RStrip(LStrip(s))

Prefix(s, n) == SubSeq(s, 1, IF Len(s) < n THEN Len(s) ELSE n)

\* word in title_lower
Contains(s, w) ==
    \E i \in 1..(Len(s) - Len(w) + 1) : \A k \in 1..Len(w) : s[i + k - 1] = w[k]

TStr(s) == [kind |-> "str", s |-> s]
TNone == [kind |-> "none", s |-> <<>>]
TMissing == [kind |-> "missing", s |-> <<>>]

(***************************************************************************)
(* LegalEvent (src/timeline_ultra.py) and the scorer.                      *)
(***************************************************************************)
LegalEvent(date, title, source, event_type, description, score) ==
    [date |-> date, title |-> title, source |-> source,
     event_type |-> event_type, description |-> description, score |-> score]

W_reforme == <<"r", "é", "f", "o", "r", "m", "e">>
W_codification == <<"c", "o", "d", "i", "f", "i", "c", "a", "t", "i", "o", "n">>
W_travail == <<"t", "r", "a", "v", "a", "i", "l">>
W_social == <<"s", "o", "c", "i", "a", "l">>
W_emploi == <<"e", "m", "p", "l", "o", "i">>

\* the weights of score_event in src/core/reform_detector.py
ScoreEventDetector(title, event_type) ==
    LET title_lower == StrLower(title)
        score == (IF event_type = "loi" THEN 4 ELSE 0)
                 + (IF Contains(title_lower, W_codification) THEN 5 ELSE 0)
                 + (IF Contains(title_lower, W_reforme) THEN 3 ELSE 0)
    IN  IF score < 10 THEN score ELSE 10

\* _score_event, in tenths (0.4 is 4); the caller has checked title is a str
ScoreEvent(title, event_type) ==
    LET title_lower == StrLower(title)
        byType == IF event_type = "loi" THEN 4
                  ELSE IF event_type = "decret" THEN 2 ELSE 0
        byReform == IF \E w \in {W_reforme, W_codification} : Contains(title_lower, w)
                    THEN 3 ELSE 0
        bySubject == IF \E w \in {W_travail, W_social, W_emploi} : Contains(title_lower, w)
                     THEN 2 ELSE 0
        score == byType + byReform + bySubject
    IN  IF score < 10 THEN score ELSE 10

W_loi == <<"l", "o", "i">>
W_decret == <<"d", "é", "c", "r", "e", "t">>
W_arrete == <<"a", "r", "r", "ê", "t", "é">>

\* TimelineEngine._guess_type (src/core/timeline_engine.py); TimelineUltra
\* does not call it
GuessType(title) ==
    LET t == StrLower(title)
    IN  IF Contains(t, W_loi) THEN "loi"
        ELSE IF Contains(t, W_decret) THEN "decret"
        ELSE IF Contains(t, W_arrete) THEN "arrete"
        ELSE "texte"

\* _fingerprint: (date.date() or the date itself, title.lower().strip()[:100])
FingerprintNoCut(event) ==
    <<IF event.date.kind = "datetime" THEN StrDate(event.date.day) ELSE event.date,
      Strip(StrLower(event.title))>>

Fingerprint(event) ==
    <<IF event.date.kind = "datetime" THEN StrDate(event.date.day) ELSE event.date,
      Prefix(Strip(StrLower(event.title)), FpLen)>>

(***************************************************************************)
(* Local store TimelineMemory (src/memory/timeline_memory.py).  events_db  *)
(* is the mapping in insertion order, a sequence of [key, payload];        *)
(* storage_file is the mapping last written to the JSON file.              *)
(***************************************************************************)
\* sha256(f"{date_str}-{event.title}"), kept as the text it hashes
HashEvent(event) == <<IsoFormat(event.date), event.title>>

EventToDict(event) ==
    [date |-> IsoFormat(event.date),
     title |-> TStr(event.title),
     source |-> event.source,
     event_type |-> event.event_type,
     description |-> event.description,
     score |-> event.score,
     timestamp |-> now]

HasKey(db, k) == \E i \in 1..Len(db) : db[i].key = k

\* a write that appends the newest entry to the file
WrittenAppends(db, file, fault) ==
    IF fault = "wfail" THEN file
    ELSE IF fault = "wtrunc" \/ db = <<>> THEN <<>>
    ELSE Append(file, db[Len(db)])

\* what _save_to_file leaves in the file when it is to hold db
Written(db, file, fault) ==
    IF fault = "wfail" THEN file ELSE IF fault = "wtrunc" THEN <<>> ELSE db

\* upsert_event that replaces the stored payload of a known key
UpsertEventOverwrites(db, file, event, fault) ==
    IF fault = "raise" THEN [db |-> db, file |-> file, raised |-> TRUE]
    ELSE LET entry == [key |-> HashEvent(event), payload |-> EventToDict(event)]
             db2 == IF HasKey(db, HashEvent(event))
                    THEN [i \in 1..Len(db) |->
                             IF db[i].key = HashEvent(event) THEN entry ELSE db[i]]
                    ELSE Append(db, entry)
         IN  [db |-> db2, file |-> Written(db2, file, fault), raised |-> FALSE]

\* outcome of one upsert_event call; fault is what the environment does to it:
\* "raise" (the call raises before it changes anything, e.g. key.encode()),
\* "wfail" (open fails inside _save_to_file, which swallows it: the file stays),
\* "wtrunc" (open truncates and json.dump fails: what is left is no JSON, and
\* _load_from_file reads it as the empty mapping), "ok"
UpsertEvent(db, file, event, fault) ==
    IF fault = "raise" THEN [db |-> db, file |-> file, raised |-> TRUE]
    ELSE IF HasKey(db, HashEvent(event))
         THEN [db |-> db, file |-> file, raised |-> FALSE]
         ELSE LET db2 == Append(db, [key |-> HashEvent(event),
                                     payload |-> EventToDict(event)])
              IN  [db |-> db2,
                   file |-> Written(db2, file, fault),
                   raised |-> FALSE]

\* load_all_events: one {"payload": ...} per entry, in mapping order
LoadAllEvents(db) == [i \in 1..Len(db) |-> [payload |-> db[i].payload]]

\* clear_all: empty the mapping, rewrite the file, return True
ClearAll(db, file, fault) ==
    [db |-> <<>>, file |-> Written(<<>>, file, fault), out |-> TRUE]

(***************************************************************************)
(* Remote store TimelineMemory (src/memory/timeline_memory_albert.py) over *)
(* AlbertCollectionClient.  remote_docs is the collection on the service,  *)
(* a sequence of [id, content, metadata]; the service is taken to keep the *)
(* documents it accepts, to list them in the order added, and to find a    *)
(* document similar exactly when its content is identical.                 *)
(***************************************************************************)
\* str(date) inside an f-string
StrOf(d) ==
    IF d.kind = "datetime" THEN [kind |-> "str", form |-> "str", day |-> d.day, tod |-> d.tod]
    ELSE IF d.kind = "none" THEN StrNone
    ELSE d

RemoteHashEvent(event) == <<"id", StrOf(event.date), event.title>>

EventToContent(event) == <<StrOf(event.date), event.title>>

\* no description and no score; the date is the object itself
EventToMetadata(event) ==
    [date |-> event.date,
     title |-> TStr(event.title),
     source |-> event.source,
     event_type |-> event.event_type,
     timestamp |-> now]

\* requests.post(json=payload): a datetime in the payload cannot be encoded
JsonEncodable(metadata) == metadata.date.kind # "datetime"

\* scores are counted in hundredths; threshold: float = 0.85
Threshold == 85

\* a chunk of a search response, with or without a "score"
Chunk(score) == [has_score |-> TRUE, score |-> score]
NoScoreChunk == [has_score |-> FALSE, score |-> 0]

\* client.search(query, limit=1, score_threshold) against a service that
\* finds the documents with the same content, at score 1.0
Search(docs, query) ==
    LET found == SelectSeq(docs, LAMBDA doc : doc.content = query)
    IN  [i \in 1..Len(found) |-> Chunk(100)]

\* similar_exists that wants a score above the threshold
SimilarExistsStrict(results, threshold) ==
    /\ results # <<>>
    /\ (IF results[1].has_score THEN results[1].score ELSE 0) > threshold

\* similar_exists, lines 103-119, on the results the search returned
SimilarExistsIn(results, threshold) ==
    /\ results # <<>>
    /\ (IF results[1].has_score THEN results[1].score ELSE 0) >= threshold

SimilarExists(docs, event) ==
    SimilarExistsIn(Search(docs, EventToContent(event)), Threshold)

\* client.add_document: False when the request fails or raises
AddDocument(docs, id, content, metadata, fault) ==
    IF fault = "addfail" \/ ~JsonEncodable(metadata)
    THEN [docs |-> docs, ok |-> FALSE]
    ELSE [docs |-> Append(docs, [id |-> id, content |-> content,
                                 metadata |-> metadata]),
          ok |-> TRUE]

RemoteUpsertEvent(docs, event, fault) ==
    IF SimilarExists(docs, event) THEN docs
    ELSE AddDocument(docs, RemoteHashEvent(event), EventToContent(event),
                     EventToMetadata(event), fault).docs

\* upsert_event when the search returns results: the documents it leaves,
\* what similar_exists returned and the client calls it made, in order
RemoteUpsertEventOn(docs, event, results, fault) ==
    IF SimilarExistsIn(results, Threshold)
    THEN [docs |-> docs, similar |-> TRUE, calls |-> <<"search">>]
    ELSE [docs |-> AddDocument(docs, RemoteHashEvent(event), EventToContent(event),
                               EventToMetadata(event), fault).docs,
          similar |-> FALSE,
          calls |-> <<"search", "add_document">>]

\* client.list_documents: [] when the request fails
ListDocuments(docs, fault) == IF fault = "listfail" THEN <<>> ELSE docs

RemoteLoadAllEvents(docs, fault) ==
    LET documents == ListDocuments(docs, fault)
    IN  [i \in 1..Len(documents) |-> [payload |-> documents[i].metadata]]

\* clear_all: delete every listed document; undeleted holds the positions
\* whose delete_document fails; True when as many were deleted as listed
RemoteClearAll(docs, fault, undeleted) ==
    LET documents == ListDocuments(docs, fault)
        Kept(doc) == \A i \in 1..Len(documents) :
                         documents[i] = doc => i \in undeleted
        success_count == Cardinality((1..Len(documents)) \ undeleted)
    IN  [docs |-> SelectSeq(docs, Kept), out |-> success_count = Len(documents)]

\* TimelineMemory(**kwargs) as TimelineUltra.__init__ calls it: the remote
\* __init__ takes no argument
MemoryInit(backend, kwargs) ==
    IF backend = "remote" /\ kwargs # {} THEN "TypeError" ELSE ""

(***************************************************************************)
(* TimelineUltra (src/timeline_ultra.py).                                  *)
(***************************************************************************)
\* the key absent from a dict candidate
NoKey == "<absent>"

\* a candidate descriptor: a dict, an object with date and title attributes
\* (TimelineEvent), or anything else; a "score" the descriptor carries is
\* never read
Candidate(shape, date, title, event_type) ==
    [shape |-> shape, date |-> date, title |-> title, event_type |-> event_type,
     description |-> NoKey, score |-> NoKey]

RECURSIVE InsertByDate(_, _)
InsertByDate(sorted, e) ==
    IF sorted = <<>> THEN <<e>>
    ELSE IF Ord(e.date) < Ord(sorted[Len(sorted)].date)
         THEN Append(InsertByDate(SubSeq(sorted, 1, Len(sorted) - 1), e),
                     sorted[Len(sorted)])
         ELSE Append(sorted, e)

\* list.sort(key=lambda e: e.date) on datetimes: stable, ascending
RECURSIVE SortByDate(_)
SortByDate(s) ==
    IF s = <<>> THEN <<>>
    ELSE InsertByDate(SortByDate(SubSeq(s, 1, Len(s) - 1)), s[Len(s)])

Comparable(s) == \A i \in 1..Len(s) : s[i].date.kind = "datetime"

\* comparing None with a datetime (or with None) raises TypeError
SortRaises(s) == Len(s) >= 2 /\ ~Comparable(s)

\* what a failed sort leaves: the elements before the first one that cannot be
\* compared are in order, the rest is where it was
FirstBad(s) == CHOOSE i \in 1..Len(s) :
                   /\ s[i].date.kind # "datetime"
                   /\ \A j \in 1..(i - 1) : s[j].date.kind = "datetime"

SortedOrLeft(s) ==
    IF Comparable(s) THEN SortByDate(s)
    ELSE IF ~SortRaises(s) THEN s
    ELSE SortByDate(SubSeq(s, 1, FirstBad(s) - 1)) \o SubSeq(s, FirstBad(s), Len(s))

\* lines 132-160: the LegalEvent built from one candidate, or why there is none
\*   "skip"  : continue (unparseable date text, unrecognised format)
\*   "raise" : AttributeError from title.lower() in _score_event on a None title
BuildNoDateCheck(cand) ==
    LET title == IF cand.title.kind = "missing" THEN TStr(<<>>) ELSE cand.title
        etype == IF cand.event_type = NoKey THEN "modification" ELSE cand.event_type
        stype == IF cand.event_type = NoKey THEN "" ELSE cand.event_type
        descr == IF cand.description = NoKey THEN "" ELSE cand.description
        date  == IF cand.shape = "dict" /\ cand.date.kind = "str"
                    /\ FromIsoOk(cand.date)
                 THEN FromIso(cand.date) ELSE cand.date
    IN  IF cand.shape = "other" THEN [res |-> "skip"]
        ELSE IF title.kind = "none" THEN [res |-> "raise", exc |-> "AttributeError"]
        ELSE [res |-> "event",
              event |-> LegalEvent(date, title.s, "llm", etype, descr,
                                   ScoreEvent(title.s, stype))]

BuildBadDateAborts(cand) ==
    IF cand.shape = "dict" /\ cand.date.kind = "str" /\ ~FromIsoOk(cand.date)
    THEN [res |-> "raise", exc |-> "ValueError"]
    ELSE BuildNoDateCheck(cand)

BuildEvent(cand) ==
    IF cand.shape = "dict" /\ cand.date.kind = "str" /\ ~FromIsoOk(cand.date)
    THEN [res |-> "skip"]
    ELSE BuildNoDateCheck(cand)

\* the engine and store while one ingest_llm_events call runs: new is
\* new_events, acc the positions of the candidates appended, ups the positions
\* whose event was passed to upsert_event, upsRaised those where it raised,
\* exc the exception that left the call ("" while there is none)
RunState(ev, fps, db, file) ==
    [events |-> ev, fps |-> fps, db |-> db, file |-> file,
     new |-> <<>>, acc |-> {}, ups |-> {}, upsRaised |-> {}, exc |-> ""]

\* lines 168-178 for an event that is no duplicate
AcceptNoFingerprint(st, i, event, fault) ==
    LET up == UpsertEvent(st.db, st.file, event, fault)
    IN  [st EXCEPT !.events = Append(@, event),
                   !.new = Append(@, event),
                   !.acc = @ \cup {i},
                   !.ups = @ \cup {i},
                   !.upsRaised = IF up.raised THEN @ \cup {i} ELSE @,
                   !.db = up.db,
                   !.file = up.file]

AcceptUpsertPropagates(st, i, event, fault) ==
    LET up == UpsertEvent(st.db, st.file, event, fault)
    IN  [st EXCEPT !.events = Append(@, event),
                   !.fps = @ \cup {Fingerprint(event)},
                   !.new = Append(@, event),
                   !.acc = @ \cup {i},
                   !.ups = @ \cup {i},
                   !.upsRaised = IF up.raised THEN @ \cup {i} ELSE @,
                   !.exc = IF up.raised THEN "StoreError" ELSE @,
                   !.db = up.db,
                   !.file = up.file]

Accept(st, i, event, fault) ==
    LET up == UpsertEvent(st.db, st.file, event, fault)
    IN  [st EXCEPT !.events = Append(@, event),
                   !.fps = @ \cup {Fingerprint(event)},
                   !.new = Append(@, event),
                   !.acc = @ \cup {i},
                   !.ups = @ \cup {i},
                   !.upsRaised = IF up.raised THEN @ \cup {i} ELSE @,
                   !.db = up.db,
                   !.file = up.file]

\* one pass of the loop body, lines 130-178
IngestOneReturnsDuplicates(st, i, cand, fault) ==
    LET b == BuildEvent(cand)
    IN  IF st.exc # "" THEN st
        ELSE IF b.res = "skip" THEN st
        ELSE IF b.res = "raise" THEN [st EXCEPT !.exc = b.exc]
        ELSE IF Fingerprint(b.event) \in st.fps
             THEN [st EXCEPT !.new = Append(@, b.event)]
        ELSE Accept(st, i, b.event, fault)

IngestOne(st, i, cand, fault) ==
    LET b == BuildEvent(cand)
    IN  IF st.exc # "" THEN st
        ELSE IF b.res = "skip" THEN st
        ELSE IF b.res = "raise" THEN [st EXCEPT !.exc = b.exc]
        ELSE IF Fingerprint(b.event) \in st.fps THEN st
        ELSE Accept(st, i, b.event, fault)

RECURSIVE IngestLoop(_, _, _, _)
IngestLoop(st, batch, faults, i) ==
    IF i > Len(batch) THEN st
    ELSE IngestLoop(IngestOne(st, i, batch[i], faults[i]), batch, faults, i + 1)

\* lines 180-186: the sort that ends the call
Finish(st) ==
    IF st.exc # "" THEN st
    ELSE [st EXCEPT !.events = SortedOrLeft(@),
                    !.exc = IF SortRaises(st.events) THEN "TypeError" ELSE ""]

\* ingest_llm_events(events)
IngestLlmEvents(ev, fps, db, file, batch, faults) ==
    Finish(IngestLoop(RunState(ev, fps, db, file), batch, faults, 1))

\* a stored payload that is a JSON object; any other JSON value has no .get
IsMapping(payload) == "date" \in DOMAIN payload

\* one pass of the loop of _load_from_memory, lines 81-106; the score is not
\* read back.  A payload without .get and a None title (in _fingerprint)
\* raise AttributeError, which the try around the whole loop catches: the
\* loop ends there.
LoadOne(st, stored) ==
    LET payload == stored.payload
        title == IF payload.title.kind = "missing" THEN TStr(<<>>) ELSE payload.title
    IN  IF st.aborted THEN st
        ELSE IF ~IsMapping(payload) THEN [st EXCEPT !.aborted = TRUE]
        ELSE IF payload.date.kind = "none" THEN st
        ELSE IF payload.date.kind = "str" /\ ~FromIsoOk(payload.date) THEN st
        ELSE IF title.kind = "none" THEN [st EXCEPT !.aborted = TRUE]
        ELSE LET event == LegalEvent(
                     IF payload.date.kind = "str" THEN FromIso(payload.date)
                     ELSE payload.date,
                     title.s, payload.source, payload.event_type,
                     payload.description, 0)
             IN  IF Fingerprint(event) \in st.fps THEN st
                 ELSE [st EXCEPT !.events = Append(@, event),
                                 !.fps = @ \cup {Fingerprint(event)}]

RECURSIVE LoadLoop(_, _, _)
LoadLoop(st, stored_events, i) ==
    IF i > Len(stored_events) THEN st
    ELSE LoadLoop(LoadOne(st, stored_events[i]), stored_events, i + 1)

\* get_events(): sorted(self.events, key=lambda e: e.date), a new list; the
\* comparison of a None date raises TypeError
GetEvents(ev) ==
    IF SortRaises(ev) THEN [out |-> <<>>, exc |-> "TypeError"]
    ELSE [out |-> IF Comparable(ev) THEN SortByDate(ev) ELSE ev, exc |-> ""]

\* get_events_range(start_date, end_date): a bound that is None is not
\* applied; e.date >= start_date on a None date raises TypeError
GetEventsRange(ev, start_date, end_date) ==
    LET all == GetEvents(ev)
        FromStart(e) == start_date.kind = "none" \/ Ord(e.date) >= Ord(start_date)
        ToEnd(e) == end_date.kind = "none" \/ Ord(e.date) <= Ord(end_date)
    IN  IF all.exc # "" THEN all
        ELSE IF (start_date.kind # "none" \/ end_date.kind # "none")
                /\ ~Comparable(all.out)
             THEN [out |-> <<>>, exc |-> "TypeError"]
        ELSE [out |-> SelectSeq(SelectSeq(all.out, FromStart), ToEnd), exc |-> ""]

\* _load_from_memory on a new engine: no sort follows the loop
LoadFromMemory(db) ==
    LoadLoop([events |-> <<>>, fps |-> {}, aborted |-> FALSE], LoadAllEvents(db), 1)

\* a new TimelineMemory that starts from the empty mapping
LoadFromFileIgnored(file) == <<>>

\* _load_from_file of a new TimelineMemory: the mapping the file holds
LoadFromFile(file) == file

(***************************************************************************)
(* extract_events_from_last_response (src/timeline_header.py).  The text   *)
(* of the last assistant message is a sequence of fragments, each with     *)
(* what the patterns of the function find in it.  A date text is a year    *)
(* ("2020"), a day with a French month name ("6 août 2019"), an ISO date  *)
(* ("2019-08-06"), the two digits re.findall(r'\b(19|20)\d{2}\b') gives,   *)
(* or no date.                                                             *)
(***************************************************************************)
YearText(y) == [form |-> "year", y |-> y, k |-> 1]
DmyText(y, k) == [form |-> "dmy", y |-> y, k |-> k]
IsoText(y, k) == [form |-> "iso", y |-> y, k |-> k]
CenturyText(y) == [form |-> "century", y |-> y, k |-> 1]
BadText == [form |-> "bad", y |-> 0, k |-> 0]

\* the k-th day of year y at midnight; day 1 is January 1st
ExDay(y, k) == DateTime((y - 1) * DaysPerYear + k, 0)

\* _parse_date_french: an ISO date matches neither the month-name nor the
\* DD/MM/YYYY pattern and ends in pattern 4, the year alone
ParseDateFrench(date_str) ==
    CASE date_str.form = "year" -> ExDay(date_str.y, 1)
      [] date_str.form = "dmy" -> ExDay(date_str.y, date_str.k)
      [] date_str.form = "iso" -> ExDay(date_str.y, 1)
      [] OTHER -> NoneVal

TimelineEvent(date, title, event_type, description) ==
    [date |-> date, title |-> title, event_type |-> event_type,
     description |-> description]

\* an item of a JSON array: an object with "date" and "title", or a value
\* that is no object
Obj(date_str, title) == [isObj |-> TRUE, date |-> date_str, title |-> title]
NonObj == [isObj |-> FALSE, date |-> BadText, title |-> ""]

\* fragments: "json" is a [{...}, ...] that json.loads reads; "json_nested"
\* is one whose objects hold a [{...}] of their own, so that the non-greedy
\* pattern stops at the inner "}]" and json.loads fails on the piece;
\* "note" is a [{...}] that is no JSON; "md" and "html" are table rows,
\* "fulldate" a day named in the prose, "year" a year named in the prose
Frag(kind, items, y, k, title) ==
    [kind |-> kind, items |-> items, y |-> y, k |-> k, title |-> title]

JsonArray(items) == Frag("json", items, 0, 0, "")
JsonNested(items) == Frag("json_nested", items, 0, 0, "")
Note == Frag("note", <<>>, 0, 0, "")
MdRow(y, title) == Frag("md", <<>>, y, 1, title)
HtmlRow(y, title) == Frag("html", <<>>, y, 1, title)
FullDate(y, k) == Frag("fulldate", <<>>, y, k, "")
BareYear(y) == Frag("year", <<>>, y, 1, "")

\* re.search(json_pattern, text): the first fragment the pattern matches,
\* 0 when there is none
JsonMatch(text) ==
    IF \E i \in 1..Len(text) : text[i].kind \in {"json", "json_nested", "note"}
    THEN CHOOSE i \in 1..Len(text) :
             /\ text[i].kind \in {"json", "json_nested", "note"}
             /\ \A j \in 1..(i - 1) : text[j].kind \notin {"json", "json_nested", "note"}
    ELSE 0

\* lines 390-401: item.get on a value that is no object raises, and the
\* events appended so far stay in the list
RECURSIVE JsonItems(_, _, _)
JsonItems(data, i, acc) ==
    IF i > Len(data) THEN acc
    ELSE IF ~data[i].isObj THEN [acc EXCEPT !.raised = TRUE]
    ELSE LET date == ParseDateFrench(data[i].date)
         IN  JsonItems(data, i + 1,
                       IF date.kind = "none" THEN acc
                       ELSE [acc EXCEPT !.events =
                                Append(@, TimelineEvent(date, data[i].title,
                                                        "modification", ""))])

\* lines 413-448: one event per table row, in text order
RowEvents(text, kind) ==
    LET rows == SelectSeq(text, LAMBDA f : f.kind = kind)
    IN  [i \in 1..Len(rows) |->
            TimelineEvent(ParseDateFrench(YearText(rows[i].y)), rows[i].title,
                          "modification", "description")]

\* lines 456-474: the days named in the text, in text order; a day named
\* inside a [{...}] fragment is found as well
RECURSIVE DmyItems(_, _)
DmyItems(items, i) ==
    IF i > Len(items) THEN <<>>
    ELSE (IF items[i].isObj /\ items[i].date.form = "dmy"
          THEN <<items[i].date>> ELSE <<>>) \o DmyItems(items, i + 1)

RECURSIVE FullDateMatches(_, _)
FullDateMatches(text, i) ==
    IF i > Len(text) THEN <<>>
    ELSE (IF text[i].kind = "fulldate" THEN <<DmyText(text[i].y, text[i].k)>>
          ELSE DmyItems(text[i].items, 1)) \o FullDateMatches(text, i + 1)

FullDateEvents(text) ==
    LET matches == FullDateMatches(text, 1)
    IN  [i \in 1..Len(matches) |->
            TimelineEvent(ParseDateFrench(matches[i]), "Texte juridique",
                          "publication", "snippet")]

\* lines 480-491: re.findall returns the group, "19" or "20", of every year
\* in the text, and _parse_date_french finds no date in it
YearsFound(text) ==
    {CenturyText(text[i].y) : i \in {j \in 1..Len(text) :
                                       text[j].kind \in {"md", "html", "fulldate", "year"}}}

YearEvents(text) ==
    IF \A year \in YearsFound(text) : ParseDateFrench(year).kind = "none"
    THEN <<>>
    ELSE LET year == CHOOSE c \in YearsFound(text) : ParseDateFrench(c).kind # "none"
         IN  <<TimelineEvent(ParseDateFrench(year), "Année", "modification",
                             "description")>>

\* lines 497-503: the first event of each day
RECURSIVE Unique(_, _)
Unique(evs, i) ==
    IF i = 0 THEN <<>>
    ELSE LET before == Unique(evs, i - 1)
         IN  IF \E j \in 1..Len(before) : before[j].date.day = evs[i].date.day
             THEN before ELSE Append(before, evs[i])

\* the function on the text of the last assistant message; <<>> is no
\* assistant message or an empty one
JsonRun(text) ==
    LET m == JsonMatch(text)
    IN  IF m > 0 /\ text[m].kind = "json"
        THEN JsonItems(text[m].items, 1, [events |-> <<>>, raised |-> FALSE])
        ELSE [events |-> <<>>, raised |-> TRUE]

\* the list `events` when the function returns or reaches line 497
Produced(text) ==
    IF JsonMatch(text) > 0 /\ ~JsonRun(text).raised THEN JsonRun(text).events
    ELSE JsonRun(text).events \o RowEvents(text, "md") \o RowEvents(text, "html")
         \o FullDateEvents(text) \o YearEvents(text)

ExtractEventsFromLastResponse(text) ==
    LET all == Produced(text)
    IN  IF text = <<>> THEN <<>>
        ELSE IF JsonMatch(text) > 0 /\ ~JsonRun(text).raised THEN SortByDate(all)
        ELSE SortByDate(Unique(all, Len(all)))

(***************************************************************************)
(* Inputs.                                                                 *)
(***************************************************************************)
TLoi == <<"L", "o", "i">>
\* the same title in another case, with surrounding whitespace
TLoiVar == <<" ", "l", "O", "I", " ">>

\* the obj candidate is a TimelineEvent (src/timeline_header.py), whose date
\* is a datetime
GoodCands ==
    {Candidate("dict", StrDate(1), TStr(TLoi), "loi"),
     Candidate("dict", StrDateTime(1, TodPerDay - 1), TStr(TLoiVar), NoKey),
     Candidate("obj", DateTime(NumDays, 0), TStr(TLoi), "loi")}

BadCands ==
    {Candidate("dict", StrBad, TStr(TLoi), "loi"),
     Candidate("dict", NoneVal, TStr(TLoi), "loi"),
     Candidate("dict", StrDate(1), TNone, "loi"),
     Candidate("dict", StrDate(1), TMissing, NoKey),
     Candidate("other", NoneVal, TMissing, NoKey)}

Cands == GoodCands \cup BadCands

\* what can happen to an upsert_event call made by the engine
Faults == {"ok", "raise"}

Batches(C) == UNION {[1..n -> C] : n \in 1..MaxBatch}

(***************************************************************************)
(* The state machine: one engine (st.session_state.timeline_ultra) and its *)
(* store.  last records the last call: its input, what it returned or      *)
(* raised, and the state it started from.                                  *)
(***************************************************************************)
Call(op, batch, faults, run, ev, fps, db, file) ==
    [op |-> op, batch |-> batch, faults |-> faults,
     new |-> run.new, acc |-> run.acc, ups |-> run.ups,
     upsRaised |-> run.upsRaised, exc |-> run.exc,
     args |-> <<>>, out |-> <<>>,
     pre_events |-> ev, pre_fps |-> fps, pre_db |-> db, pre_file |-> file]

NoRun == RunState(<<>>, {}, <<>>, <<>>)

\* the other process has not opened the file
NotOpen == [open |-> FALSE, events_db |-> <<>>]

\* the names of two of the tools of TOOLS
ToolNames == {"rechercher_textes_juridiques", "lister_codes"}

\* the stats dictionary chat_with_tools() starts with; tools_used holds 0
\* for a name the dictionary does not have yet
StartStats(max_iterations) ==
    [iterations |-> 0, max_iterations |-> max_iterations, tool_calls |-> 0,
     successful_calls |-> 0, failed_calls |-> 0,
     tools_used |-> [n \in ToolNames |-> 0]]

\* no chat_with_tools() call is running
NoChat ==
    [pc |-> "idle", max_iterations |-> 0, iteration |-> 0, stats |-> StartStats(0),
     with_tools |-> 0, without_tools |-> 0, requested |-> 0,
     pending |-> <<>>, result |-> "", raised |-> ""]

\* no BaseAPI.request() call is running
NoRequest ==
    [pc |-> "idle", max_retries |-> 0, retry_on_auth_failure |-> FALSE,
     attempt |-> 0, seen |-> <<>>, refreshed |-> 0, raised |-> "",
     token_failed |-> FALSE]

\* create_conversation() starts the count at 0
InitOutside == other = NotOpen /\ event_count = 0 /\ chat = NoChat /\ req = NoRequest

\* no call is being looked at
Idle == Call("idle", <<>>, <<>>, NoRun, <<>>, {}, <<>>, <<>>)

\* a fresh conversation: TimelineUltra(conversation_id=new_id), no file yet
Init ==
    /\ events = <<>>
    /\ fingerprints = {}
    /\ events_db = <<>>
    /\ storage_file = <<>>
    /\ remote_docs = <<>>
    /\ now = 0
    /\ InitOutside
    /\ last = Idle

\* a chat turn's ingestion (src/app.py 364-372).  The environment picks, for
\* each upsert_event call the batch leads to, what happens to it.
AllOk(batch) == [i \in 1..Len(batch) |-> "ok"]

IngestRun(batch, faults) ==
    /\ last = Idle
    /\ \E run \in {IngestLlmEvents(events, fingerprints, events_db, storage_file,
                                   batch, faults)} :
           /\ Len(run.events) <= MaxEvents
           /\ Len(run.db) <= MaxEvents
           /\ events' = run.events
           /\ fingerprints' = run.fps
           /\ events_db' = run.db
           /\ storage_file' = run.file
           /\ UNCHANGED <<remote_docs, now>>
           /\ last' = Call("ingest", batch, faults, run, events, fingerprints,
                           events_db, storage_file)

IngestWith(batch, faults) == IngestRun(batch, faults) /\ UNCHANGED outside

Ingest(batch) ==
    /\ last = Idle
    /\ \E dry \in {IngestLlmEvents(events, fingerprints, events_db, storage_file,
                                   batch, AllOk(batch))} :
       \E f \in [dry.ups -> Faults] :
           IngestWith(batch, [i \in 1..Len(batch) |->
                                 IF i \in dry.ups THEN f[i] ELSE "ok"])

\* TimelineUltra.clear(), the "reset conversation" button (src/app.py 263-267)
ClearKeepsFingerprints ==
    /\ last = Idle
    /\ events' = <<>>
    /\ fingerprints' = fingerprints
    /\ UNCHANGED <<events_db, storage_file, remote_docs, now, outside>>
    /\ last' = Call("clear", <<>>, <<>>, NoRun, events, fingerprints, events_db,
                    storage_file)

ClearWipesStore ==
    /\ last = Idle
    /\ events' = <<>>
    /\ fingerprints' = {}
    /\ events_db' = <<>>
    /\ storage_file' = <<>>
    /\ UNCHANGED <<remote_docs, now, outside>>
    /\ last' = Call("clear", <<>>, <<>>, NoRun, events, fingerprints, events_db,
                    storage_file)

Clear ==
    /\ last = Idle
    /\ events' = <<>>
    /\ fingerprints' = {}
    /\ UNCHANGED <<events_db, storage_file, remote_docs, now, outside>>
    /\ last' = Call("clear", <<>>, <<>>, NoRun, events, fingerprints, events_db,
                    storage_file)

\* the "erase timeline" button (src/app.py 269-277): clear() then
\* memory.clear_all()
EraseTimeline(fault) ==
    LET c == ClearAll(events_db, storage_file, fault)
    IN  /\ last = Idle
        /\ events' = <<>>
        /\ fingerprints' = {}
        /\ events_db' = c.db
        /\ storage_file' = c.file
        /\ UNCHANGED <<remote_docs, now, outside>>
        /\ last' = Call("erase", <<>>, <<>>, NoRun, events, fingerprints, events_db,
                        storage_file)

\* a new TimelineUltra for the same conversation (src/app.py 105, 174, 195):
\* a new TimelineMemory reads the file, then _load_from_memory
Construct ==
    LET db == LoadFromFile(storage_file)
        ld == LoadFromMemory(db)
    IN  /\ last = Idle
        /\ events' = ld.events
        /\ fingerprints' = ld.fps
        /\ events_db' = db
        /\ UNCHANGED <<storage_file, remote_docs, now, outside>>
        /\ last' = Call("construct", <<>>, <<>>, NoRun, events, fingerprints,
                        events_db, storage_file)

\* a call that reads the engine: args is what it was given, res what it
\* returned or raised
Query(op, args, res) ==
    /\ last = Idle
    /\ last' = [Call(op, <<>>, <<>>, NoRun, events, fingerprints, events_db,
                     storage_file)
                EXCEPT !.args = args, !.out = res.out, !.exc = res.exc]
    /\ UNCHANGED <<events, fingerprints, events_db, storage_file, remote_docs, now, outside>>

GetEventsCall == Query("get_events", <<>>, GetEvents(events))

\* the bounds a range query is given: None or a datetime
RangeBounds == {NoneVal} \cup {DateTime(d, t) : d \in Days, t \in Tods}

GetEventsRangeCall(start_date, end_date) ==
    Query("get_events_range", <<start_date, end_date>>,
          GetEventsRange(events, start_date, end_date))

\* the script run ends (st.rerun(), src/app.py 267, 278): what the call
\* returned and the locals of the run are gone, the session state stays
Rerun ==
    /\ last # Idle
    /\ last' = Idle
    /\ UNCHANGED <<events, fingerprints, events_db, storage_file, remote_docs, now, outside>>

Next ==
    \/ \E batch \in Batches(Cands) : Ingest(batch)
    \/ Clear
    \/ EraseTimeline("ok")
    \/ Construct
    \/ GetEventsCall
    \/ \E start_date, end_date \in RangeBounds :
           GetEventsRangeCall(start_date, end_date)
    \/ Rerun

Spec == Init /\ [][Next]_vars

(***************************************************************************)
(* _fingerprint on its own: one ingest_llm_events call on a fresh engine,  *)
(* with titles around the 100-character cut.                               *)
(***************************************************************************)
\* FpLen - 1 times "a", then c100 as the 100th character, then tail
Long(c100, tail) == [i \in 1..(FpLen - 1) |-> "a"] \o <<c100>> \o tail

TLongX == Long("a", <<"x">>)
TLongY == Long("a", <<"y">>)
TLongB == Long("b", <<"x">>)
TLong100 == Long("a", <<>>)
TLongPadded == <<" ">> \o Long("A", <<"X">>)

FpTitles == {TLoi, TLoiVar, TLongX, TLongY, TLongB, TLong100, TLongPadded}

FpDates == {StrDate(d) : d \in Days} \cup {StrDateTime(1, TodPerDay - 1)}

FpCands == {Candidate("dict", d, TStr(t), NoKey) : d \in FpDates, t \in FpTitles}

\* a new conversation: nothing held, nothing stored, no call made yet
Fresh == events = <<>> /\ events_db = <<>> /\ last = Idle

\* the store works
IngestFresh(batch) == Fresh /\ IngestWith(batch, AllOk(batch))

NextFp == Fresh /\ \E batch \in Batches(FpCands) : IngestFresh(batch)

SpecFp == Init /\ [][NextFp]_vars

(***************************************************************************)
(* The local store on its own: upsert_event, load_all_events and clear_all *)
(* called on one TimelineMemory, a new TimelineMemory opened on its file,  *)
(* and the clock that stamps the payloads.                                 *)
(***************************************************************************)
\* events handed to upsert_event: two with one key (same date and title,
\* other fields differing), a variant title on another day, and a date that
\* is a text
StoreEvents ==
    {LegalEvent(DateTime(1, 0), TLoi, "llm", "loi", "", 4),
     LegalEvent(DateTime(1, 0), TLoi, "llm", "decret", "", 2),
     LegalEvent(DateTime(NumDays, TodPerDay - 1), TLoiVar, "llm", "modification", "", 0),
     LegalEvent(StrDate(1), TLoi, "llm", "loi", "", 4)}

\* what can happen to the write of _save_to_file
StoreFaults == {"ok", "wfail", "wtrunc"}

\* a call on the store: what it was given, what it returned, the mapping and
\* the file it leaves
StoreCall(op, args, out, db, file) ==
    /\ last = Idle
    /\ Len(db) <= MaxEvents
    /\ events_db' = db
    /\ storage_file' = file
    /\ last' = [Call(op, <<>>, <<>>, NoRun, events, fingerprints, events_db,
                     storage_file)
                EXCEPT !.args = args, !.out = out]
    /\ UNCHANGED <<events, fingerprints, remote_docs, now, outside>>

UpsertEventCall(event, fault) ==
    \E up \in {UpsertEvent(events_db, storage_file, event, fault)} :
        StoreCall("upsert_event", <<event, fault>>, <<>>, up.db, up.file)

LoadAllEventsCall ==
    StoreCall("load_all_events", <<>>, LoadAllEvents(events_db), events_db,
              storage_file)

ClearAllCall(fault) ==
    \E c \in {ClearAll(events_db, storage_file, fault)} :
        StoreCall("clear_all", <<fault>>, <<c.out>>, c.db, c.file)

\* TimelineMemory(conversation_id=<the same>): _load_from_file
Reopen ==
    StoreCall("open", <<>>, <<>>, LoadFromFile(storage_file), storage_file)

\* datetime.utcnow() moves on between two calls
Tick ==
    /\ last = Idle
    /\ now < MaxClock
    /\ now' = now + 1
    /\ UNCHANGED <<events, fingerprints, events_db, storage_file, remote_docs, last, outside>>

NextLocal ==
    \/ \E event \in StoreEvents, fault \in StoreFaults : UpsertEventCall(event, fault)
    \/ LoadAllEventsCall
    \/ \E fault \in StoreFaults : ClearAllCall(fault)
    \/ Reopen
    \/ Tick
    \/ Rerun

SpecLocal == Init /\ [][NextLocal]_vars

(***************************************************************************)
(* Two processes with a TimelineMemory each on one file: this one and the  *)
(* other one, whose upsert_event calls interleave.                         *)
(***************************************************************************)
\* TimelineMemory(conversation_id=<the same>) in the other process
OtherOpen ==
    /\ last = Idle
    /\ ~other.open
    /\ other' = [open |-> TRUE, events_db |-> LoadFromFile(storage_file)]
    /\ last' = Call("other_open", <<>>, <<>>, NoRun, events, fingerprints,
                    events_db, storage_file)
    /\ UNCHANGED <<events, fingerprints, events_db, storage_file, remote_docs, now,
                   event_count, chat, req>>

\* upsert_event on the other instance: its own mapping, the shared file
OtherUpsertEvent(event, fault) ==
    /\ last = Idle
    /\ other.open
    /\ \E up \in {UpsertEvent(other.events_db, storage_file, event, fault)} :
           /\ Len(up.db) <= MaxEvents
           /\ other' = [other EXCEPT !.events_db = up.db]
           /\ storage_file' = up.file
    /\ last' = [Call("other_upsert_event", <<>>, <<>>, NoRun, events, fingerprints,
                     other.events_db, storage_file)
                EXCEPT !.args = <<event, fault>>]
    /\ UNCHANGED <<events, fingerprints, events_db, remote_docs, now, event_count, chat, req>>

NextTwo ==
    \/ \E event \in StoreEvents, fault \in StoreFaults : UpsertEventCall(event, fault)
    \/ Reopen
    \/ OtherOpen
    \/ \E event \in StoreEvents, fault \in StoreFaults : OtherUpsertEvent(event, fault)
    \/ Rerun

SpecTwo == Init /\ [][NextTwo]_vars

(***************************************************************************)
(* Both stores, each called on its own, with the failures of the file      *)
(* write and of the requests.                                              *)
(***************************************************************************)
\* the events of StoreEvents and one without a date
RemoteEvents == StoreEvents \cup {LegalEvent(NoneVal, TLoi, "llm", "loi", "", 4)}

RemoteCall(op, args, out, docs) ==
    /\ last = Idle
    /\ Len(docs) <= MaxEvents
    /\ remote_docs' = docs
    /\ last' = [Call(op, <<>>, <<>>, NoRun, events, fingerprints, events_db,
                     storage_file)
                EXCEPT !.args = args, !.out = out]
    /\ UNCHANGED <<events, fingerprints, events_db, storage_file, now, outside>>

RemoteUpsertEventCall(event, fault) ==
    RemoteCall("remote_upsert_event", <<event, fault>>, <<>>,
               RemoteUpsertEvent(remote_docs, event, fault))

RemoteLoadAllEventsCall(fault) ==
    RemoteCall("remote_load_all_events", <<fault>>,
               RemoteLoadAllEvents(remote_docs, fault), remote_docs)

RemoteClearAllCall(fault, undeleted) ==
    \E c \in {RemoteClearAll(remote_docs, fault, undeleted)} :
        RemoteCall("remote_clear_all", <<fault, undeleted>>, <<c.out>>, c.docs)

NextRemote ==
    \/ \E event \in RemoteEvents, fault \in {"ok", "addfail"} :
           RemoteUpsertEventCall(event, fault)
    \/ \E fault \in {"ok", "listfail"} : RemoteLoadAllEventsCall(fault)
    \/ \E undeleted \in SUBSET (1..Len(remote_docs)) :
           RemoteClearAllCall("ok", undeleted)
    \/ RemoteClearAllCall("listfail", {})

NextStore == NextLocal \/ NextRemote

SpecStore == Init /\ [][NextStore]_vars

(***************************************************************************)
(* The remote store with a search service that answers as it likes.        *)
(***************************************************************************)
Scores == {Threshold - 1, Threshold, 100}

\* what client.search returns: nothing (no hit, or a failed request), or
\* chunks, the best first
SearchResults ==
    {<<>>}
    \cup {<<c>> : c \in {Chunk(sc) : sc \in Scores} \cup {NoScoreChunk}}
    \cup {<<Chunk(Threshold - 1), Chunk(100)>>, <<Chunk(Threshold), NoScoreChunk>>}

SimilarUpsertEventCall(event, results, fault) ==
    \E up \in {RemoteUpsertEventOn(remote_docs, event, results, fault)} :
        RemoteCall("remote_upsert_event", <<event, fault, results>>,
                   <<[similar |-> up.similar, calls |-> up.calls,
                      docs_before |-> remote_docs]>>,
                   up.docs)

NextSimilar ==
    \/ \E event \in RemoteEvents, results \in SearchResults, fault \in {"ok", "addfail"} :
           SimilarUpsertEventCall(event, results, fault)
    \/ Rerun

SpecSimilar == Init /\ [][NextSimilar]_vars

(***************************************************************************)
(* Both stores given the same calls, none of which fails.                  *)
(***************************************************************************)
BothCall(op, args, out, db, file, docs) ==
    /\ last = Idle
    /\ Len(db) <= MaxEvents
    /\ events_db' = db
    /\ storage_file' = file
    /\ remote_docs' = docs
    /\ last' = [Call(op, <<>>, <<>>, NoRun, events, fingerprints, events_db,
                     storage_file)
                EXCEPT !.args = args, !.out = out]
    /\ UNCHANGED <<events, fingerprints, now, outside>>

\* TimelineMemory(conversation_id=conversation_id), src/timeline_ultra.py 60
BothInit ==
    BothCall("init", <<>>,
             <<MemoryInit("local", {"conversation_id"}),
               MemoryInit("remote", {"conversation_id"})>>,
             LoadFromFile(storage_file), storage_file, remote_docs)

BothUpsertEvent(event) ==
    \E up \in {UpsertEvent(events_db, storage_file, event, "ok")} :
        BothCall("upsert_event", <<event>>, <<>>, up.db, up.file,
                 RemoteUpsertEvent(remote_docs, event, "ok"))

BothLoadAllEvents ==
    BothCall("load_all_events", <<>>,
             <<LoadAllEvents(events_db), RemoteLoadAllEvents(remote_docs, "ok")>>,
             events_db, storage_file, remote_docs)

BothClearAll ==
    \E c \in {ClearAll(events_db, storage_file, "ok")} :
    \E r \in {RemoteClearAll(remote_docs, "ok", {})} :
        BothCall("clear_all", <<>>, <<c.out, r.out>>, c.db, c.file, r.docs)

NextBoth ==
    \/ BothInit
    \/ \E event \in RemoteEvents : BothUpsertEvent(event)
    \/ BothLoadAllEvents
    \/ BothClearAll
    \/ Tick
    \/ Rerun

SpecBoth == Init /\ [][NextBoth]_vars

(***************************************************************************)
(* _score_event on its own: one ingest_llm_events call on a fresh engine,  *)
(* over titles with and without the scored words, the scored types, and    *)
(* descriptors that carry a score of their own.                            *)
(***************************************************************************)
TReforme == <<"R", "é", "f", "o", "r", "m", "e">>
TCodification == <<"C", "o", "d", "i", "f", "i", "c", "a", "t", "i", "o", "n">>
TTravail == <<"t", "r", "a", "v", "a", "i", "l">>
TSocial == <<"s", "o", "c", "i", "a", "l">>
TEmploi == <<"e", "m", "p", "l", "o", "i">>
TReformeEmploi == TReforme \o <<" ">> \o TEmploi

ScoreTitles == {TLoi, TReforme, TCodification, TTravail, TSocial, TEmploi,
                TReformeEmploi}

ScoreTypes == {"loi", "decret", NoKey}

\* a score the descriptor supplies, or none
SuppliedScores == {NoKey, "1.0"}

ScoreCands ==
    {[Candidate("dict", StrDate(1), TStr(t), ty) EXCEPT !.score = sc] :
        t \in ScoreTitles, ty \in ScoreTypes, sc \in SuppliedScores}
    \cup {[Candidate("obj", DateTime(1, 0), TStr(t), "decret") EXCEPT !.score = "1.0"] :
              t \in {TReforme, TTravail}}

NextScore == Fresh /\ \E batch \in Batches(ScoreCands) : IngestFresh(batch)

SpecScore == Init /\ [][NextScore]_vars

(***************************************************************************)
(* The app flow (src/app.py): chat turns whose extraction gives events,    *)
(* the two sidebar buttons, and the count kept by the conversation manager.*)
(***************************************************************************)
\* ConversationManager.update_event_count: the new count, or the old one
\* when reading or writing metadata.json fails (the error is logged)
UpdateEventCount(old, count, fault) == IF fault = "fail" THEN old ELSE count

\* lines 364-372: the ingestion of a chat turn; an exception of
\* ingest_llm_events leaves the handler before the count is touched
ChatTurn(batch, faults, cfault) ==
    /\ IngestRun(batch, faults)
    /\ \E run \in {IngestLlmEvents(events, fingerprints, events_db, storage_file,
                                   batch, faults)} :
           event_count' = IF run.exc = "" /\ Len(run.new) > 0
                          THEN UpdateEventCount(event_count, Len(run.events), cfault)
                          ELSE event_count
    /\ UNCHANGED <<other, chat, req>>

NextApp ==
    \/ \E batch \in Batches(Cands), cfault \in {"ok", "fail"} :
           ChatTurn(batch, AllOk(batch), cfault)
    \/ Clear
    \/ EraseTimeline("ok")
    \/ Rerun

SpecApp == Init /\ [][NextApp]_vars

(***************************************************************************)
(* Construction over a store file that holds malformed entries.            *)
(***************************************************************************)
MaxFile == 3

StoredPayload(date, title) ==
    [date |-> date, title |-> title, source |-> "llm", event_type |-> "loi",
     description |-> "", score |-> 4, timestamp |-> 0]

\* a JSON value that is no object (a text, a number, null)
NotAMapping == [scalar |-> "text"]

WellFormedPayloads ==
    {StoredPayload(StrDateTime(d, 0), TStr(TLoi)) : d \in Days}

MalformedPayloads ==
    {StoredPayload(NoneVal, TStr(TLoi)),
     StoredPayload(StrBad, TStr(TLoi)),
     StoredPayload(StrDateTime(1, 0), TNone),
     NotAMapping}

\* the files: every entry under its own key
Files ==
    UNION {{[i \in 1..n |-> [key |-> <<i>>, payload |-> f[i]]] :
               f \in [1..n -> WellFormedPayloads \cup MalformedPayloads]} :
           n \in 0..MaxFile}

InitLoad ==
    /\ events = <<>>
    /\ fingerprints = {}
    /\ events_db = <<>>
    /\ storage_file \in Files
    /\ remote_docs = <<>>
    /\ now = 0
    /\ InitOutside
    /\ last = Idle

NextLoad == Construct \/ Rerun

SpecLoad == InitLoad /\ [][NextLoad]_vars

(***************************************************************************)
(* The extraction applied to the texts of an assistant message.            *)
(***************************************************************************)
Years == 1..NumYears

JA == <<Obj(YearText(NumYears), "A"), Obj(YearText(1), "B")>>
JB == <<Obj(YearText(1), "A"), Obj(IsoText(1, DaysPerYear), "B")>>
JC == <<Obj(BadText, "A")>>
\* the pattern wants an object at both ends of the array
JD == <<Obj(DmyText(1, DaysPerYear), "A"), NonObj, Obj(YearText(1), "B")>>

Frags ==
    {JsonArray(items) : items \in {JA, JB, JC, JD}}
    \cup {JsonNested(JA), Note, HtmlRow(1, "H"), BareYear(NumYears)}
    \cup {MdRow(y, "T") : y \in Years}
    \cup {FullDate(1, k) : k \in {1, DaysPerYear}}

Texts == UNION {[1..n -> Frags] : n \in 0..MaxFrags}

ExtractCall ==
    \E text \in Texts :
        Query("extract_events_from_last_response", <<text>>,
              [out |-> ExtractEventsFromLastResponse(text), exc |-> ""])

NextExtract == ExtractCall \/ Rerun

SpecExtract == Init /\ [][NextExtract]_vars

(***************************************************************************)
(* Vocabulary of the properties.                                           *)
(***************************************************************************)
Range(seq) == {seq[i] : i \in 1..Len(seq)}

\* the day and the normalised title, as the specification words them
DayOf(event) == IF event.date.kind = "datetime" THEN event.date.day ELSE -1

NormTitle(title) == Strip(StrLower(title))

AgreeOnPrefix(s, t, n) ==
    \A k \in 1..n : /\ (k <= Len(s)) <=> (k <= Len(t))
                    /\ k <= Len(s) => s[k] = t[k]

Duplicates(e1, e2) ==
    /\ e1.date.kind = e2.date.kind
    /\ IF e1.date.kind = "datetime" THEN DayOf(e1) = DayOf(e2) ELSE e1.date = e2.date
    /\ \E s \in {NormTitle(e1.title)} : \E t \in {NormTitle(e2.title)} :
           AgreeOnPrefix(s, t, 100)

\* a candidate with a date (a datetime or an ISO text) and a str title
WellFormed(c) ==
    /\ c.shape \in {"dict", "obj"}
    /\ c.title.kind = "str"
    /\ \/ c.date.kind = "datetime"
       \/ c.shape = "dict" /\ c.date.kind = "str" /\ c.date.form \in {"date", "datetime"}

\* a dict candidate whose date is a text that is no ISO-8601 date
BadDate(c) ==
    c.shape = "dict" /\ c.date.kind = "str" /\ c.date.form \notin {"date", "datetime"}

\* the event an accepted candidate stands for
EventOf(c) == BuildEvent(c).event

IsSortedByDate(seq) ==
    \A i, j \in 1..Len(seq) :
        i < j => /\ seq[i].date.kind = "datetime"
                 /\ seq[j].date.kind = "datetime"
                 /\ Ord(seq[i].date) <= Ord(seq[j].date)

AllDated(seq) == \A i \in 1..Len(seq) : seq[i].date.kind = "datetime"

Returned == last.op = "ingest" /\ last.exc = ""

\* C1: in every state of one engine, no two events of `events` have the same
\* fingerprint, and _fingerprints is exactly the set of the fingerprints of
\* the events in the list.
C1_UniqueFingerprints ==
    /\ \A i, j \in 1..Len(events) : i # j => ~Duplicates(events[i], events[j])
    /\ \A i, j \in 1..Len(events) :
           i # j => Fingerprint(events[i]) # Fingerprint(events[j])
    /\ fingerprints = {Fingerprint(events[i]) : i \in 1..Len(events)}

\* an ingestion that rejected a duplicate and left two events
C1_Witness ==
    /\ Returned
    /\ Len(events) = 2
    /\ \E j \in 1..Len(last.batch) : WellFormed(last.batch[j]) /\ j \notin last.acc

\* C2: when a call returns, each candidate with a date and a title has
\* exactly one event standing for it; it is returned as newly accepted only
\* if it is the first of its kind in the batch and no event stood for it
\* before the call; the list grows by the returned events only.
C2_IngestTwiceOnce ==
    Returned =>
        /\ \A j \in 1..Len(last.batch) :
             WellFormed(last.batch[j]) =>
               LET e == EventOf(last.batch[j])
                   known == \E k \in 1..Len(last.pre_events) :
                                Duplicates(last.pre_events[k], e)
                   earlier == \E i \in 1..(j - 1) :
                                  /\ WellFormed(last.batch[i])
                                  /\ Duplicates(EventOf(last.batch[i]), e)
               IN  /\ Cardinality({k \in 1..Len(events) : Duplicates(events[k], e)}) = 1
                   /\ (j \in last.acc) <=> (~known /\ ~earlier)
                   /\ (known \/ earlier) =>
                        Cardinality({k \in 1..Len(last.new) :
                                        Duplicates(last.new[k], e)})
                          = (IF known THEN 0 ELSE 1)
        /\ Len(last.new) = Cardinality(last.acc)
        /\ Len(events) = Len(last.pre_events) + Len(last.new)

\* the same descriptor ingested in a second call: nothing is returned
C2_Witness ==
    /\ Returned
    /\ Len(last.batch) = 1
    /\ WellFormed(last.batch[1])
    /\ last.new = <<>>
    /\ Len(events) = 1
    /\ events[1] = EventOf(last.batch[1])

\* C3: after the load at construction and after each ingest call that
\* returns, `events` is sorted ascending by date.
C3_SortedAfterAdding ==
    (last.op = "construct" \/ Returned) => IsSortedByDate(events)

\* C4: ingest_llm_events never raises.
C4_IngestNeverRaises ==
    last.op = "ingest" => last.exc = ""

\* C5: a candidate with no date, or with a title that is missing or empty
\* after trimming, is neither appended, nor passed to upsert, nor returned.
Incomplete(c) ==
    /\ c.shape \in {"dict", "obj"}
    /\ \/ c.date.kind = "none"
       \/ c.title.kind # "str"
       \/ Strip(c.title.s) = <<>>

C5_IncompleteSkipped ==
    last.op = "ingest" =>
        \A j \in 1..Len(last.batch) :
            Incomplete(last.batch[j]) => j \notin last.acc /\ j \notin last.ups

\* the sequence without its j-th element
Without(seq, j) == [i \in 1..(Len(seq) - 1) |-> IF i < j THEN seq[i] ELSE seq[i + 1]]

\* C6: in a batch of dict candidates of which exactly one has a date text
\* that is no ISO-8601 date, that candidate alone is skipped: the call ends
\* as it would on the batch without it (same events, fingerprints, returned
\* list, store mapping and file, same outcome), the bad candidate is neither
\* accepted nor persisted, and the skip raises nothing.
C6_BadDateIsolated ==
    \A j \in 1..Len(last.batch) :
        ( /\ last.op = "ingest"
          /\ \A i \in 1..Len(last.batch) : last.batch[i].shape = "dict"
          /\ BadDate(last.batch[j])
          /\ \A i \in 1..Len(last.batch) : i # j => ~BadDate(last.batch[i]) )
        =>
        LET rest == IngestLlmEvents(last.pre_events, last.pre_fps, last.pre_db,
                                    last.pre_file, Without(last.batch, j),
                                    Without(last.faults, j))
        IN  /\ events = rest.events
            /\ fingerprints = rest.fps
            /\ events_db = rest.db
            /\ storage_file = rest.file
            /\ last.new = rest.new
            /\ last.exc = rest.exc
            /\ last.exc \in {"", "AttributeError", "TypeError"}
            /\ j \notin last.acc /\ j \notin last.ups
            /\ (\A i \in 1..Len(last.batch) : i # j => WellFormed(last.batch[i]))
               /\ AllDated(last.pre_events)
               => last.exc = ""

\* a batch of two whose first candidate has the bad date and whose second
\* is accepted
C6_Witness ==
    /\ Returned
    /\ Len(last.batch) = 2
    /\ BadDate(last.batch[1])
    /\ last.batch[2].shape = "dict"
    /\ last.acc = {2}
    /\ last.new = <<EventOf(last.batch[2])>>

\* C7: a raise of upsert_event is caught: the candidate it was called for
\* stays accepted (in events, in _fingerprints, in the returned list), the
\* candidates after it are still processed, and the raise is never what ends
\* the call; a batch of well-formed candidates returns normally.
C7_UpsertRaiseKept ==
    last.op = "ingest" =>
        /\ last.exc # "StoreError"
        /\ last.upsRaised \subseteq last.acc
        /\ \A i \in last.upsRaised :
             LET e == EventOf(last.batch[i])
             IN  /\ e \in Range(events)
                 /\ Fingerprint(e) \in fingerprints
                 /\ e \in Range(last.new)
                 /\ \A j \in (i + 1)..Len(last.batch) :
                        (\A k \in (i + 1)..j : WellFormed(last.batch[k]))
                        => \E m \in 1..Len(events) :
                               Duplicates(events[m], EventOf(last.batch[j]))
        /\ ( /\ last.upsRaised # {}
             /\ \A i \in 1..Len(last.batch) : WellFormed(last.batch[i])
             /\ AllDated(last.pre_events) )
           => last.exc = ""

\* upsert raised for the first candidate, the second was accepted after it
C7_Witness ==
    /\ Returned
    /\ Len(last.batch) = 2
    /\ 1 \in last.upsRaised
    /\ last.acc = {1, 2}
    /\ Len(last.new) = 2
    /\ Len(events_db) = 1

\* C8: the list a call returns is exactly what the call appended: every
\* returned event is in `events`, none of them had a known fingerprint
\* before the call, every event from before is still there, and the list
\* grew by the number of returned events.
C8_ReturnedIsAppended ==
    Returned =>
        /\ Range(last.new) \subseteq Range(events)
        /\ \A k \in 1..Len(last.new) :
               /\ Fingerprint(last.new[k]) \notin last.pre_fps
               /\ \A m \in 1..Len(last.pre_events) :
                      ~Duplicates(last.pre_events[m], last.new[k])
        /\ Range(last.pre_events) \subseteq Range(events)
        /\ Range(events) = Range(last.pre_events) \cup Range(last.new)
        /\ Len(events) = Len(last.pre_events) + Len(last.new)
        /\ \A k, m \in 1..Len(last.new) : k # m => last.new[k] # last.new[m]

\* one event held before, one candidate rejected, one returned
C8_Witness ==
    /\ Returned
    /\ Len(last.pre_events) = 1
    /\ Len(last.batch) = 2
    /\ Len(last.new) = 1
    /\ \E j \in 1..2 : WellFormed(last.batch[j]) /\ j \notin last.acc

\* the entries of the file whose date text parses, as the events they hold
Parses(entry) == entry.payload.date.kind = "str"
                 /\ entry.payload.date.form \in {"date", "datetime"}
                 /\ entry.payload.title.kind = "str"

StoredAs(entry) ==
    [date |-> DateTime(entry.payload.date.day,
                       IF entry.payload.date.form = "date" THEN 0
                       ELSE entry.payload.date.tod),
     title |-> entry.payload.title.s]

ClearFrame ==
    last.op = "clear" =>
        /\ events = <<>>
        /\ fingerprints = {}
        /\ events_db = last.pre_db
        /\ storage_file = last.pre_file

\* C10 as stated: clear() empties events and _fingerprints and leaves the
\* store as it was, and an engine constructed afterwards holds every event
\* that was persisted before the clear.  (An engine that holds no event has
\* persisted nothing since its last clear(), so all the file holds was
\* persisted before it; the entries meant are those whose date parses.)
C10_ReloadsEveryEvent ==
    /\ ClearFrame
    /\ (last.op = "construct" /\ last.pre_events = <<>>) =>
           \A k \in 1..Len(storage_file) :
               Parses(storage_file[k]) =>
                   \E m \in 1..Len(events) :
                       /\ events[m].date = StoredAs(storage_file[k]).date
                       /\ events[m].title = StoredAs(storage_file[k]).title

\* C10 amended: clear() empties events and _fingerprints and leaves the
\* store as it was; an engine constructed afterwards holds, for every
\* persisted entry whose date parses, the first persisted entry with that
\* fingerprint, and a later entry with the same fingerprint is not loaded.
C10_ReloadsFirstOfEachFingerprint ==
    /\ ClearFrame
    /\ last.op = "construct" =>
           /\ events_db = storage_file
           /\ \A k \in 1..Len(storage_file) :
                  Parses(storage_file[k]) =>
                      LET first == CHOOSE i \in 1..k :
                              /\ Parses(storage_file[i])
                              /\ Duplicates(StoredAs(storage_file[i]),
                                            StoredAs(storage_file[k]))
                              /\ \A h \in 1..(i - 1) :
                                     ~(Parses(storage_file[h])
                                       /\ Duplicates(StoredAs(storage_file[h]),
                                                     StoredAs(storage_file[k])))
                      IN  /\ \E m \in 1..Len(events) :
                                 /\ events[m].date = StoredAs(storage_file[first]).date
                                 /\ events[m].title = StoredAs(storage_file[first]).title
                          /\ first # k =>
                                 \A m \in 1..Len(events) :
                                     ~(/\ events[m].date = StoredAs(storage_file[k]).date
                                       /\ events[m].title = StoredAs(storage_file[k]).title)
           /\ Len(events) <= Len(storage_file)

\* an engine constructed over a file of two entries with one fingerprint
\* holds one event
C10_Witness ==
    /\ last.op = "construct"
    /\ last.pre_events = <<>>
    /\ Len(storage_file) = 2
    /\ Parses(storage_file[1]) /\ Parses(storage_file[2])
    /\ Len(events) = 1

\* the date and title a well-formed candidate gives
Given(c) ==
    [date |-> IF c.date.kind = "str"
              THEN DateTime(c.date.day, IF c.date.form = "date" THEN 0 ELSE c.date.tod)
              ELSE c.date,
     title |-> c.title.s]

\* C9: two candidates are treated as duplicates exactly when they fall on
\* the same calendar day and their titles, lower-cased and stripped, agree
\* on the first 100 characters: the fingerprints are equal exactly then, the
\* later of two such candidates is rejected, and two candidates that differ
\* in the day or inside the first 100 normalised characters are both
\* accepted.
C9_DuplicateIffSameDayAndPrefix ==
    Returned =>
        \A i, j \in 1..Len(last.batch) :
            (i < j /\ WellFormed(last.batch[i]) /\ WellFormed(last.batch[j])) =>
                \E ei \in {Given(last.batch[i])} : \E ej \in {Given(last.batch[j])} :
                \E dup \in {Duplicates(ei, ej)} :
                    LET fresh(k) ==
                            /\ \A m \in 1..Len(last.pre_events) :
                                   ~Duplicates(last.pre_events[m], Given(last.batch[k]))
                            /\ \A h \in 1..(k - 1) :
                                   WellFormed(last.batch[h]) =>
                                       ~Duplicates(Given(last.batch[h]),
                                                   Given(last.batch[k]))
                    IN  /\ (Fingerprint(ei) = Fingerprint(ej)) <=> dup
                        /\ dup => j \notin last.acc
                        /\ (fresh(i) /\ fresh(j)) => (i \in last.acc /\ j \in last.acc)
                        /\ (i \in last.acc /\ j \in last.acc) => ~dup

\* two titles of more than 100 characters that differ only after the 100th,
\* on one day: the second is rejected
C9_Witness ==
    /\ Returned
    /\ Len(last.batch) = 2
    /\ last.batch[1].title.s # last.batch[2].title.s
    /\ Len(last.batch[1].title.s) > 100
    /\ Len(last.batch[2].title.s) > 100
    /\ NormTitle(last.batch[1].title.s) # NormTitle(last.batch[2].title.s)
    /\ last.acc = {1}
    /\ Len(events) = 1

\* whether date d lies in the window; a bound that is None is no bound
InWindow(d, start_date, end_date) ==
    /\ d.kind = "datetime"
    /\ start_date.kind = "none" \/ Ord(start_date) <= Ord(d)
    /\ end_date.kind = "none" \/ Ord(d) <= Ord(end_date)

\* seq holds each event as often as the other sequence does
SameEvents(s1, s2) ==
    /\ Len(s1) = Len(s2)
    /\ \A e \in Range(s1) \cup Range(s2) :
           Cardinality({i \in 1..Len(s1) : s1[i] = e})
             = Cardinality({i \in 1..Len(s2) : s2[i] = e})

\* C11: in every engine state, for every start and end (each optional),
\* get_events_range returns, and returns exactly the events whose date d
\* satisfies start <= d <= end, the bounds included.
C11_RangeIsWindow ==
    last.op = "get_events_range" =>
        /\ last.exc = ""
        /\ SameEvents(last.out,
                      SelectSeq(last.pre_events,
                                LAMBDA e : InWindow(e.date, last.args[1], last.args[2])))

\* C12: after any sequence of construction, ingest and clear calls,
\* get_events() returns all and only the events the engine holds, in
\* non-decreasing date order, and get_events_range() returns its result in
\* that order too.
C12_QueriesSorted ==
    /\ last.op = "get_events" =>
           /\ last.exc = ""
           /\ SameEvents(last.out, events)
           /\ IsSortedByDate(last.out)
    /\ last.op = "get_events_range" =>
           /\ last.exc = ""
           /\ IsSortedByDate(last.out)

\* C13: an engine constructed over a store that earlier ingestion filled
\* holds, for every persisted event, an event with the date, title, source,
\* event_type, description and score the event was accepted with.
C13_RoundTripSixFields ==
    last.op = "construct" =>
        \A k \in 1..Len(storage_file) :
            Parses(storage_file[k]) =>
                \E m \in 1..Len(events) :
                    events[m] = LegalEvent(StoredAs(storage_file[k]).date,
                                           storage_file[k].payload.title.s,
                                           storage_file[k].payload.source,
                                           storage_file[k].payload.event_type,
                                           storage_file[k].payload.description,
                                           storage_file[k].payload.score)

\* the score as the claim words it, in tenths
HasWord(s, w) == \E i \in 1..(Len(s) - Len(w) + 1) : SubSeq(s, i, i + Len(w) - 1) = w

ClaimScore(title, event_type) ==
    LET low == StrLower(title)
        sum == (IF event_type = "loi" THEN 4 ELSE IF event_type = "decret" THEN 2 ELSE 0)
               + (IF HasWord(low, W_reforme) \/ HasWord(low, W_codification) THEN 3 ELSE 0)
               + (IF HasWord(low, W_travail) \/ HasWord(low, W_social)
                     \/ HasWord(low, W_emploi) THEN 2 ELSE 0)
    IN  IF sum > 10 THEN 10 ELSE sum

\* C14: the score is min(1.0, 0.4 for 'loi' else 0.2 for 'decret', plus 0.3
\* for 'réforme' or 'codification' in the lower-cased title, plus 0.2 for
\* 'travail', 'social' or 'emploi'), so it lies in [0.0, 1.0]; every event
\* ingest_llm_events accepts carries this score of its own title and
\* event_type, whatever score the descriptor supplied.
C14_ScoreFormula ==
    Returned =>
        /\ \A k \in 1..Len(events) :
               /\ events[k].score = ClaimScore(events[k].title, events[k].event_type)
               /\ events[k].score >= 0 /\ events[k].score <= 10
        /\ \A i \in last.acc :
               \E k \in 1..Len(last.new) :
                   /\ last.new[k].title = last.batch[i].title.s
                   /\ last.new[k].score
                        = ClaimScore(last.batch[i].title.s,
                                     IF last.batch[i].event_type = NoKey
                                     THEN "" ELSE last.batch[i].event_type)

\* a 'loi' titled "Réforme emploi" whose descriptor supplied 1.0 is accepted
\* with 0.9, next to a 'decret' titled "Codification" accepted with 0.5
C14_Witness ==
    /\ Returned
    /\ last.acc = {1, 2}
    /\ last.batch[1].score = "1.0"
    /\ \E k \in 1..Len(events) : events[k].score = 9 /\ events[k].title = TReformeEmploi
    /\ \E k \in 1..Len(events) : events[k].score = 5 /\ events[k].title = TCodification

\* C15: a dict candidate that gives only a date and a title is accepted
\* with the event_type the type guess gives its title ('loi' when the title
\* holds "loi" in any case, 'texte' when it holds no known type), and a
\* 'loi' carries the 0.4 weight in its score.
C15_TypeGuessed ==
    Returned =>
        \A i \in last.acc :
            ( /\ last.batch[i].shape = "dict"
              /\ last.batch[i].title.kind = "str"
              /\ last.batch[i].event_type = NoKey
              /\ last.batch[i].description = NoKey )
            => \E k \in 1..Len(last.new) :
                   /\ last.new[k].title = last.batch[i].title.s
                   /\ last.new[k].event_type = GuessType(last.batch[i].title.s)
                   /\ last.new[k].event_type = "loi" => last.new[k].score >= 4

\* the key of an event in the local store: the text that is hashed
KeyText(e) ==
    <<IF e.date.kind = "datetime" THEN StrDateTime(e.date.day, e.date.tod)
      ELSE IF e.date.kind = "none" THEN StrNone ELSE e.date,
      e.title>>

C17_ClearedWhenTrue ==
    /\ (last.op = "clear_all" /\ last.out = <<TRUE>>) =>
           /\ LoadAllEvents(events_db) = <<>>
           /\ LoadAllEvents(LoadFromFile(storage_file)) = <<>>
    /\ (last.op = "remote_clear_all" /\ last.out = <<TRUE>>) =>
           RemoteLoadAllEvents(remote_docs, "ok") = <<>>

SixFields == {"date", "title", "source", "event_type", "description", "score"}

\* two loaded events with the same six fields
SameSix(a, b) ==
    \A f \in SixFields :
        /\ f \in DOMAIN a.payload
        /\ f \in DOMAIN b.payload
        /\ a.payload[f] = b.payload[f]

\* C18: the engine constructs both stores in the same way, and after any
\* failure-free sequence of upsert_event, load_all_events and clear_all
\* given to both, load_all_events returns the same set of events with the
\* same date, title, source, event_type, description and score.
C18_StoresInterchangeable ==
    /\ last.op = "init" => last.out = <<"", "">>
    /\ last.op = "load_all_events" /\ Len(last.out) = 2 =>
           /\ \A i \in 1..Len(last.out[1]) : \E j \in 1..Len(last.out[2]) :
                  SameSix(last.out[1][i], last.out[2][j])
           /\ \A j \in 1..Len(last.out[2]) : \E i \in 1..Len(last.out[1]) :
                  SameSix(last.out[1][i], last.out[2][j])

\* the call looked at is an extraction
Extracted == last.op = "extract_events_from_last_response"

\* ascending dates
Ascending(evs) == \A i \in 1..(Len(evs) - 1) : Ord(evs[i].date) <= Ord(evs[i + 1].date)

\* the JSON arrays of objects of a text, nested or not
ObjectArrays(text) ==
    {i \in 1..Len(text) :
        /\ text[i].kind \in {"json", "json_nested"}
        /\ \A n \in 1..Len(text[i].items) : text[i].items[n].isObj}

\* the items of an array whose date parses
Dated(items) == SelectSeq(items, LAMBDA it : ParseDateFrench(it.date).kind # "none")

\* the events are exactly the dated items of the array
FromItems(evs, items) ==
    /\ Len(evs) = Len(Dated(items))
    /\ \A n \in 1..Len(Dated(items)) :
           \E i \in 1..Len(evs) :
               /\ evs[i].title = Dated(items)[n].title
               /\ evs[i].date = ParseDateFrench(Dated(items)[n].date)

\* C19: when the message holds a JSON array of objects that parses, the
\* result is made of the dated items of that array only, in ascending date
\* order; when no bracket fragment matches, every table row and every named
\* day of the text gives its day to the result.
C19_JsonFirstElseAll ==
    Extracted =>
        LET text == last.args[1]
            out == last.out
        IN  /\ ObjectArrays(text) # {} =>
                   /\ Ascending(out)
                   /\ \E i \in ObjectArrays(text) : FromItems(out, text[i].items)
            /\ JsonMatch(text) = 0 =>
                   /\ Ascending(out)
                   /\ \A i \in 1..Len(text) :
                          text[i].kind \in {"md", "html", "fulldate"} =>
                              \E n \in 1..Len(out) :
                                  out[n].date = ExDay(text[i].y, text[i].k)

\* C20: for every text, no two returned events fall on the same calendar
\* day, and the event kept for a day is the first one produced for it.
C20_OnePerDayFirstKept ==
    Extracted =>
        LET text == last.args[1]
            out == last.out
            all == Produced(text)
        IN  /\ \A i, j \in 1..Len(out) : out[i].date.day = out[j].date.day => i = j
            /\ \A i \in 1..Len(out) :
                   \E n \in 1..Len(all) :
                       /\ all[n] = out[i]
                       /\ \A b \in 1..(n - 1) : all[b].date.day # out[i].date.day

(***************************************************************************)
(* chat_with_tools(): the loop of tool-enabled LLM calls, the tool calls   *)
(* of each answer, and the final call without tools.                       *)
(***************************************************************************)
\* the largest max_iterations looked at
MaxIterations == 2

\* the most tool calls one answer of the LLM carries
MaxToolCalls == 2

\* a tool call of an answer: the tool's name, and whether the text of its
\* arguments is JSON
ToolCall(name, json) == [name |-> name, json |-> json]

ToolCalls == {ToolCall(n, j) : n \in ToolNames, j \in BOOLEAN}

\* an answer of the LLM: its content (None is ""), and its tool calls
Answer(content, tool_calls) == [content |-> content, tool_calls |-> tool_calls]

Answers ==
    {Answer(c, t) : c \in {"", "text"},
                    t \in UNION {[1..n -> ToolCalls] : n \in 0..MaxToolCalls}}

\* content or <the fixed text>
OrText(content, text) == IF content = "" THEN text ELSE content

\* lines 44-55: the call starts, nothing counted yet
ChatWithTools(max_iterations) ==
    /\ chat.pc = "idle"
    /\ chat' = [NoChat EXCEPT !.pc = "loop", !.max_iterations = max_iterations,
                              !.stats = StartStats(max_iterations)]
    /\ UNCHANGED <<events, fingerprints, events_db, storage_file, remote_docs, now,
                   last, other, event_count, req>>

\* lines 62-94: one turn of the while loop up to the tool calls: the
\* iteration is counted, the LLM is called with the tools, and an answer
\* without tool calls is returned
LlmWithTools(answer) ==
    /\ chat.pc = "loop"
    /\ chat.iteration < chat.max_iterations
    /\ chat' = [chat EXCEPT
                   !.iteration = @ + 1,
                   !.stats.iterations = chat.iteration + 1,
                   !.with_tools = @ + 1,
                   !.requested = IF answer.tool_calls = <<>> THEN @ ELSE @ + 1,
                   !.pending = answer.tool_calls,
                   !.result = IF answer.tool_calls = <<>>
                              THEN OrText(answer.content, "Aucune reponse generee.")
                              ELSE @,
                   !.pc = IF answer.tool_calls = <<>> THEN "returned" ELSE "tools"]
    /\ UNCHANGED <<events, fingerprints, events_db, storage_file, remote_docs, now,
                   last, other, event_count, req>>

\* lines 100-131: one tool call of the answer: json.loads of its arguments
\* (which raises on a text that is not JSON, before anything is counted),
\* the counts, execute_tool (which always returns a dictionary), and the
\* count of its success or failure
ExecuteToolCall(success) ==
    /\ chat.pc = "tools"
    /\ chat.pending # <<>>
    /\ \E tool_call \in {Head(chat.pending)} :
           chat' = IF ~tool_call.json
                   THEN [chat EXCEPT !.pc = "raised", !.raised = "JSONDecodeError"]
                   ELSE [chat EXCEPT
                           !.stats.tool_calls = @ + 1,
                           !.stats.tools_used[tool_call.name] = @ + 1,
                           !.stats.successful_calls = IF success THEN @ + 1 ELSE @,
                           !.stats.failed_calls = IF success THEN @ ELSE @ + 1,
                           !.pending = Tail(@),
                           !.pc = IF Tail(chat.pending) = <<>> THEN "loop" ELSE "tools"]
    /\ UNCHANGED <<events, fingerprints, events_db, storage_file, remote_docs, now,
                   last, other, event_count, req>>

\* lines 141-152: the loop is over, one call without tools, and its
\* content or the text about the limit
LlmWithoutTools(content) ==
    /\ chat.pc = "loop"
    /\ ~(chat.iteration < chat.max_iterations)
    /\ chat' = [chat EXCEPT
                   !.without_tools = @ + 1,
                   !.result = OrText(content, "La limite d'iterations a ete atteinte."),
                   !.pc = "returned"]
    /\ UNCHANGED <<events, fingerprints, events_db, storage_file, remote_docs, now,
                   last, other, event_count, req>>

\* the caller has the result or the exception, the next call may start
ChatOver ==
    /\ chat.pc \in {"returned", "raised"}
    /\ chat' = NoChat
    /\ UNCHANGED <<events, fingerprints, events_db, storage_file, remote_docs, now,
                   last, other, event_count, req>>

NextChat ==
    \/ \E max_iterations \in 0..MaxIterations : ChatWithTools(max_iterations)
    \/ \E answer \in Answers : LlmWithTools(answer)
    \/ \E success \in BOOLEAN : ExecuteToolCall(success)
    \/ \E content \in {"", "text"} : LlmWithoutTools(content)
    \/ ChatOver

SpecChat == Init /\ [][NextChat]_vars

\* the LLM and the tools return: a step of the running call is always taken
SpecChatFair == SpecChat /\ WF_vars(NextChat)

(***************************************************************************)
(* BaseAPI.request(): the loop of attempts, each with the headers (and the *)
(* token) built, the HTTP request sent and its outcome handled.            *)
(***************************************************************************)
\* the largest max_retries looked at
MaxRetries == 3

\* the outcome of self.http.request: the status code of the response, or
\* NetworkError when httpx.RequestError is raised instead
NetworkError == 0

Outcomes == {NetworkError, 200, 204, 400, 401, 404, 429, 500}

\* the call leaves the loop by an exception
Raise(r, exc) == [r EXCEPT !.pc = "raised", !.raised = exc]

\* get_access_token(force_refresh=True) and `continue`; a token that cannot
\* be obtained raises AuthenticationError out of request()
RefreshAndContinue(r, refresh_ok) ==
    IF refresh_ok
    THEN [r EXCEPT !.refreshed = @ + 1]
    ELSE [Raise(r, "AuthenticationError") EXCEPT !.token_failed = TRUE]

\* lines 304-356: the handler of httpx.HTTPStatusError, `attempt` counted
\* from 1
OnHTTPStatusError(r, attempt, status, refresh_ok) ==
    IF status = 401 /\ r.retry_on_auth_failure /\ attempt < r.max_retries
    THEN RefreshAndContinue(r, refresh_ok)
    ELSE IF status = 429 THEN Raise(r, "RateLimitError")
    ELSE IF status >= 500 /\ attempt < r.max_retries THEN r
    ELSE IF status = 400 THEN Raise(r, "ValidationError")
    ELSE IF status = 401 THEN Raise(r, "AuthenticationError")
    ELSE Raise(r, "LegifranceAPIError")

\* lines 358-372: the handler of httpx.RequestError
OnRequestError(r, attempt) ==
    IF attempt < r.max_retries THEN r ELSE Raise(r, "LegifranceAPIError")

\* lines 275-302: the response in hand
OnResponse(r, attempt, status, refresh_ok) ==
    IF status = 401 /\ r.retry_on_auth_failure /\ attempt = 1
    THEN RefreshAndContinue(r, refresh_ok)
    ELSE IF status = 429 THEN Raise(r, "RateLimitError")
    ELSE IF status >= 400 THEN OnHTTPStatusError(r, attempt, status, refresh_ok)
    ELSE [r EXCEPT !.pc = "returned"]

\* lines 262-372: one turn of the for loop
RequestAttempt(r, headers_ok, outcome, refresh_ok) ==
    LET attempt == r.attempt + 1
        counted == [r EXCEPT !.attempt = attempt]
        sent    == [counted EXCEPT !.seen = Append(@, outcome)]
    IN IF ~headers_ok
       THEN [Raise(counted, "AuthenticationError") EXCEPT !.token_failed = TRUE]
       ELSE IF outcome = NetworkError
       THEN OnRequestError(sent, attempt)
       ELSE OnResponse(sent, attempt, outcome, refresh_ok)

\* lines 215-260: the call starts
Request(max_retries, retry_on_auth_failure) ==
    /\ req.pc = "idle"
    /\ req' = [NoRequest EXCEPT !.pc = "attempting", !.max_retries = max_retries,
                                !.retry_on_auth_failure = retry_on_auth_failure]
    /\ UNCHANGED <<events, fingerprints, events_db, storage_file, remote_docs, now,
                   last, other, event_count, chat>>

\* the for loop has a turn left
Attempt(headers_ok, outcome, refresh_ok) ==
    /\ req.pc = "attempting"
    /\ req.attempt < req.max_retries
    /\ req' = RequestAttempt(req, headers_ok, outcome, refresh_ok)
    /\ UNCHANGED <<events, fingerprints, events_db, storage_file, remote_docs, now,
                   last, other, event_count, chat>>

\* lines 374-380: the for loop is over without a return or a raise
Exhausted ==
    /\ req.pc = "attempting"
    /\ ~(req.attempt < req.max_retries)
    /\ req' = Raise(req, "LegifranceAPIError")
    /\ UNCHANGED <<events, fingerprints, events_db, storage_file, remote_docs, now,
                   last, other, event_count, chat>>

\* the caller has the result or the exception, the next call may start
RequestOver ==
    /\ req.pc \in {"returned", "raised"}
    /\ req' = NoRequest
    /\ UNCHANGED <<events, fingerprints, events_db, storage_file, remote_docs, now,
                   last, other, event_count, chat>>

NextRequest ==
    \/ \E max_retries \in 0..MaxRetries, retry_on_auth_failure \in BOOLEAN :
           Request(max_retries, retry_on_auth_failure)
    \/ \E headers_ok \in BOOLEAN, outcome \in Outcomes, refresh_ok \in BOOLEAN :
           Attempt(headers_ok, outcome, refresh_ok)
    \/ Exhausted
    \/ RequestOver

SpecRequest == Init /\ [][NextRequest]_vars

\* C21: for a text with no JSON block, every bare year of the text has an
\* event on January 1st of that year in the result (a placeholder, or the
\* event an earlier strategy produced on that day).
C21_BareYearsGiveEvents ==
    Extracted =>
        LET text == last.args[1]
            out == last.out
        IN  JsonMatch(text) = 0 =>
                \A i \in 1..Len(text) :
                    text[i].kind = "year" =>
                        \E n \in 1..Len(out) : out[n].date = ExDay(text[i].y, 1)

\* the engine state is the one a construction over the store gives
Constructed(ev, fps, db, file) ==
    /\ db = LoadFromFile(file)
    /\ ev = LoadFromMemory(db).events
    /\ fps = LoadFromMemory(db).fps

\* the event a stored entry stands for; the date text "None" is what an
\* undated event was stored with
Held(entry) ==
    [date |-> IF entry.payload.date = StrNone THEN NoneVal
              ELSE DateTime(entry.payload.date.day,
                            IF entry.payload.date.form = "date" THEN 0
                            ELSE entry.payload.date.tod),
     title |-> entry.payload.title.s]

\* candidate c has the fingerprint of an event the store holds
HeldBy(file, c) ==
    /\ c.shape \in {"dict", "obj"}
    /\ c.title.kind = "str"
    /\ WellFormed(c) \/ c.date.kind = "none"
    /\ \E k \in 1..Len(file) :
           /\ file[k].payload.title.kind = "str"
           /\ file[k].payload.date.form \in {"date", "datetime", "None"}
           /\ Duplicates(Given(c), Held(file[k]))

\* C22: on an engine constructed over a store, a candidate with the
\* fingerprint of an event the store holds is not accepted and not passed to
\* the store; a batch of such candidates returns the empty list, leaves the
\* events of the engine the same (the final sort may reorder them) and the
\* store and its file as they were.
C22_DedupSurvivesRestart ==
    (last.op = "ingest"
     /\ Constructed(last.pre_events, last.pre_fps, last.pre_db, last.pre_file)) =>
        /\ \A i \in 1..Len(last.batch) :
               HeldBy(last.pre_file, last.batch[i]) =>
                   (i \notin last.acc /\ i \notin last.ups)
        /\ (\A i \in 1..Len(last.batch) : HeldBy(last.pre_file, last.batch[i])) =>
               /\ last.new = <<>>
               /\ SameEvents(events, last.pre_events)
               /\ events_db = last.pre_db
               /\ storage_file = last.pre_file

\* a stored entry with a payload that is a mapping, a date that parses and
\* a str title
WellFormedEntry(entry) == IsMapping(entry.payload) /\ Parses(entry)

\* C23: a construction loads every well-formed entry of the store, wherever
\* it stands among the malformed ones (each malformed entry is skipped on
\* its own), and does not raise.
C23_MalformedSkippedAlone ==
    last.op = "construct" =>
        /\ last.exc = ""
        /\ \A k \in 1..Len(storage_file) :
               WellFormedEntry(storage_file[k]) =>
                   \E m \in 1..Len(events) :
                       Duplicates(events[m], StoredAs(storage_file[k]))

\* the call wrote the file: an upsert_event of a key the mapping did not
\* have, or a clear_all, whose write succeeded
WroteFile ==
    \/ /\ last.op = "upsert_event"
       /\ last.args[2] = "ok"
       /\ \A i \in 1..Len(last.pre_db) : last.pre_db[i].key # KeyText(last.args[1])
    \/ last.op = "clear_all" /\ last.args[1] = "ok"

LostUpdate ==
    /\ last.op \in {"upsert_event", "other_upsert_event"}
    /\ last.args[2] = "ok"
    /\ \E i \in 1..Len(last.pre_file) :
           \A k \in 1..Len(storage_file) : storage_file[k] # last.pre_file[i]

\* C25: an event whose upsert_event wrote the file is lost from the file by
\* the write of the last writer only when two instances are open on the
\* file, and the writer's mapping did not hold it; while this instance is
\* the only one, no upsert_event loses one.
C25_LostUpdateNeedsTwoWriters ==
    LostUpdate =>
        /\ other.open
        /\ \A i \in 1..Len(last.pre_file) :
               (\A k \in 1..Len(storage_file) : storage_file[k] # last.pre_file[i]) =>
                   \A h \in 1..Len(last.pre_db) : last.pre_db[h] # last.pre_file[i]

\* two instances on one file: the write of the one removes the event the
\* other wrote
C25_Witness ==
    /\ LostUpdate
    /\ other.open
    /\ Len(last.pre_file) = 1
    /\ Len(storage_file) = 1
    /\ storage_file[1].key # last.pre_file[1].key

\* the search returned a top hit whose score is at least 0.85
TopHit(results) ==
    /\ Len(results) >= 1
    /\ results[1].has_score
    /\ results[1].score >= 85

\* C26: the remote upsert_event searches first and calls add_document only
\* after similar_exists returned False; similar_exists returns True exactly
\* when the search returned a top hit with a score of at least 0.85, and
\* then nothing is added.
C26_SimilarityBeforeAdd ==
    (last.op = "remote_upsert_event" /\ Len(last.args) = 3) =>
        LET r == last.out[1]
        IN  /\ r.similar <=> TopHit(last.args[3])
            /\ r.calls[1] = "search"
            /\ (\E i \in 1..Len(r.calls) : r.calls[i] = "add_document") =>
                   (~r.similar /\ r.calls = <<"search", "add_document">>)
            /\ TopHit(last.args[3]) =>
                   (r.calls = <<"search">> /\ remote_docs = r.docs_before)

\* a hit at exactly the threshold: the event is not added, although the
\* collection does not hold it
C26_Witness ==
    /\ last.op = "remote_upsert_event"
    /\ Len(last.args) = 3
    /\ Len(last.args[3]) = 1
    /\ last.args[3][1].score = 85
    /\ last.args[1].date.kind = "str"
    /\ last.out[1].similar
    /\ remote_docs = <<>>

\* C27: after each ingestion of the app flow that returns, the event_count
\* of the current conversation is the number of events the engine holds,
\* whatever chat turns, resets and erasures came before.
C27_CountIsEngineSize ==
    Returned => event_count = Len(events)

\* the matched array holds an item that is no object after an object
\* whose date parses
FailsPartWay(text) ==
    /\ JsonMatch(text) > 0
    /\ text[JsonMatch(text)].kind = "json"
    /\ \E n \in 1..Len(text[JsonMatch(text)].items) :
           /\ ~text[JsonMatch(text)].items[n].isObj
           /\ \A b \in 1..(n - 1) : text[JsonMatch(text)].items[b].isObj
           /\ \E b \in 1..(n - 1) :
                  ParseDateFrench(text[JsonMatch(text)].items[b].date).kind # "none"

\* the events strategies 2 to 5 produce
StrategyEvents(text) ==
    Range(RowEvents(text, "md")) \cup Range(RowEvents(text, "html"))
    \cup Range(FullDateEvents(text)) \cup Range(YearEvents(text))

\* C28: when the handling of the matched JSON array fails part-way, the
\* events already built from its items are discarded: every event of the
\* result is one that strategies 2 to 5 produced.
C28_PartialJsonDiscarded ==
    (Extracted /\ FailsPartWay(last.args[1])) =>
        \A i \in 1..Len(last.out) : last.out[i] \in StrategyEvents(last.args[1])

\* the sum of the counts of stats["tools_used"]
RECURSIVE SumCounts(_, _)
SumCounts(tools_used, names) ==
    IF names = {} THEN 0
    ELSE LET n == CHOOSE x \in names : TRUE
         IN tools_used[n] + SumCounts(tools_used, names \ {n})

\* the run of chat_with_tools has ended
ChatEnded == chat.pc \in {"returned", "raised"}

\* the bounds and the accounting of a run: the calls with the tools, the one
\* call without tools, the string returned and the counts at return
ChatAccounting ==
    /\ chat.with_tools <= chat.max_iterations
    /\ chat.without_tools <= 1
    /\ chat.without_tools = 1 =>
           /\ chat.pc = "returned"
           /\ chat.with_tools = chat.max_iterations
           /\ chat.requested = chat.max_iterations
    /\ chat.pc = "returned" =>
           /\ chat.result # ""
           /\ chat.without_tools = 1 \/ chat.requested < chat.with_tools
           /\ chat.stats.iterations <= chat.max_iterations
           /\ chat.stats.tool_calls
                  = chat.stats.successful_calls + chat.stats.failed_calls
           /\ chat.stats.tool_calls = SumCounts(chat.stats.tools_used, ToolNames)

\* C29: a run of chat_with_tools whose LLM calls and tools all return ends
\* by returning, never by raising; it makes at most max_iterations LLM calls
\* with the tools, and one call without tools exactly when it has returned
\* after max_iterations answers that all asked for tools; the string it
\* returns is not empty; and at return stats.iterations <= max_iterations and
\* stats.tool_calls = stats.successful_calls + stats.failed_calls = the sum
\* of the counts of stats.tools_used.
C29_ChatReturnsWithinBounds ==
    /\ chat.pc # "raised"
    /\ ChatAccounting

\* a started run ends, once the LLM and the tools return
ChatTerminates == (chat.pc = "loop") ~> ChatEnded

\* the request() call has raised, and not because the token was refused
RequestRaised == req.pc = "raised" /\ ~req.token_failed

\* the outcome of the latest HTTP attempt
LastSeen == req.seen[Len(req.seen)]

\* C30: request() sends at most max_retries HTTP requests and, when none is
\* answered with success, raises; a 429 raises RateLimitError and a 4xx other
\* than 401 and 429 raises, each with no attempt after it; a 5xx or a network
\* error is followed by another attempt as long as one is left, and raises
\* when none is; and when every attempt was answered 401 the call ends in
\* AuthenticationError, whatever max_retries >= 1 is.
C30_RetriesAndErrors ==
    /\ Len(req.seen) <= req.max_retries
    /\ req.pc = "returned" => LastSeen \in {200, 204}
    /\ \A i \in 1..Len(req.seen) :
           /\ req.seen[i] = 429 =>
                  i = Len(req.seen) /\ req.pc = "raised" /\ req.raised = "RateLimitError"
           /\ req.seen[i] \in {400, 404} => i = Len(req.seen) /\ req.pc = "raised"
    /\ (req.seen # <<>> /\ ~req.token_failed
           /\ (LastSeen = NetworkError \/ LastSeen >= 500)) =>
           IF Len(req.seen) < req.max_retries
           THEN req.pc = "attempting"
           ELSE req.pc = "raised" /\ req.raised = "LegifranceAPIError"
    /\ (RequestRaised /\ req.seen # <<>> /\ req.max_retries >= 1
           /\ \A i \in 1..Len(req.seen) : req.seen[i] = 401) =>
           req.raised = "AuthenticationError"

====
